---- MODULE Spec2Model ----
(***************************************************************************)
(* FlowTrack nudge engine: the dispatch trigger (materialise today's       *)
(* nudges, send the due ones), the acknowledgement endpoint and the        *)
(* nudge-history page, over the nudges table.                              *)
(*                                                                         *)
(* Instants are minutes since 00:00 UTC of day 0 of the model's calendar.  *)
(* Strings the code inspects character by character (slots, headers,       *)
(* tokens) are sequences; a nullable column is <<>> (null) or <<v>>.       *)
(***************************************************************************)
EXTENDS Integers, Sequences, FiniteSets, TLC

\* ---------------------------------------------------------------- bounds
NumProcs == 2
MaxTicks == 1
MaxNudges == 4
TokenLen == 2

\* ------------------------------------------------------------- constants
MinPerHour == 60
HoursPerDay == 24
MinPerDay == HoursPerDay * MinPerHour
MsPerMin == 60 * 1000
MsPerDay == 1000 * 60 * 60 * 24

\* The clock starts at 08:30 UTC of day 0 and is read every TickStep.
StartNow == 8 * MinPerHour + 30
TickStep == 12 * MinPerHour

NULL == <<>>
Some(v) == <<v>>
Val(x) == x[1]

Procs == 1..NumProcs
Ids == 1..MaxNudges

Min2(a, b) == IF a <= b THEN a ELSE b

\* ------------------------------------------------------------ time zones
\* Zone strings as the config stores them: a sequence of pieces, " " being
\* one whitespace character.
trim(s) ==
  LET idx == {i \in 1..Len(s) : s[i] # " "}
  IN IF idx = {} THEN <<>>
     ELSE LET lo == CHOOSE i \in idx : \A j \in idx : i <= j
              hi == CHOOSE i \in idx : \A j \in idx : i >= j
          IN SubSeq(s, lo, hi)

\* Day 0 of the model's calendar is the day before US daylight saving ends:
\* New York is at UTC-4 until 06:00 UTC of day 1 and at UTC-5 from then on.
DstEnd == MinPerDay + 6 * MinPerHour

\* luxon: DateTime.setZone(zone).isValid
ZoneIsValid(zone) == zone \in {<<"UTC">>, <<"America/New_York">>}

\* luxon: zone.offset(ts), in minutes
ZoneOffset(zone, ts) ==
  IF zone = <<"UTC">> THEN 0
  ELSE IF ts < DstEnd THEN 0 - 4 * MinPerHour ELSE 0 - 5 * MinPerHour

\* variant: the offset read at the current instant is taken as the slot's
FixOffsetNoSecondGuess(localTS, o, zone) == localTS - o

\* luxon fixOffset(localTS, o, tz): the UTC instant of a local wall time
FixOffset(localTS, o, zone) ==
  LET utcGuess == localTS - o
      o2 == ZoneOffset(zone, utcGuess)
  IN IF o2 = o THEN utcGuess
     ELSE LET guess2 == utcGuess - (o2 - o)
              o3 == ZoneOffset(zone, guess2)
          IN IF o2 = o3 THEN guess2
             ELSE localTS - Min2(o2, o3)

\* ------------------------------------------------------------ time slots
Digits == <<"0", "1", "2", "3", "4", "5", "6", "7", "8", "9">>
IsDigit(c) == \E d \in 1..10 : Digits[d] = c
DigitVal(c) == (CHOOSE d \in 1..10 : Digits[d] = c) - 1

\* /^([01]?\d|2[0-3]):([0-5]\d)$/ : <<>> when there is no match, else
\* <<hour, minute>>
SlotMatch(localTime) ==
  LET n == Len(localTime)
      minOk(i) == /\ localTime[i] \in {"0", "1", "2", "3", "4", "5"}
                  /\ IsDigit(localTime[i + 1])
      minV(i) == 10 * DigitVal(localTime[i]) + DigitVal(localTime[i + 1])
  IN IF n = 4 /\ IsDigit(localTime[1]) /\ localTime[2] = ":" /\ minOk(3)
       THEN <<DigitVal(localTime[1]), minV(3)>>
     ELSE IF n = 5 /\ localTime[3] = ":" /\ minOk(4)
             /\ \/ localTime[1] \in {"0", "1"} /\ IsDigit(localTime[2])
                \/ localTime[1] = "2" /\ localTime[2] \in {"0", "1", "2", "3"}
       THEN <<10 * DigitVal(localTime[1]) + DigitVal(localTime[2]), minV(4)>>
     ELSE <<>>

\* parseTimeToUTCISO(localTime, tz) read at instant t (DateTime.now()):
\* NULL, or Some(the UTC instant of localTime on t's calendar day in tz)
parseTimeToUTCISO(localTime, tz, t) ==
  LET match == SlotMatch(localTime)
      zone == IF tz = <<>> THEN <<"UTC">> ELSE tz
  IN IF match = <<>> THEN NULL
     ELSE IF ~ZoneIsValid(zone) THEN NULL
     ELSE LET o == ZoneOffset(zone, t)
              localDay == (t + o) \div MinPerDay
              localTS == localDay * MinPerDay + match[1] * MinPerHour + match[2]
          IN Some(FixOffset(localTS, o, zone))

\* ------------------------------------------------- tables and environment
Users == <<"u1", "u2">>
UserSet == {Users[k] : k \in 1..Len(Users)}

\* profiles(id, email): u1 has an address, u2 has the column's default ''
profiles == [u \in UserSet |-> [id |-> u, email |-> IF u = "u1" THEN "a@x" ELSE ""]]

\* process.env.CRON_SECRET and the request headers the trigger may carry
CRON_SECRET == <<"k">>
Bearer == <<"B", "e", "a", "r", "e", "r", " ">>
Headers == {<<>>, CRON_SECRET, Bearer \o CRON_SECRET, <<"x">>, Bearer, Bearer \o <<"x">>}

\* nudge_configs rows the model starts from
Slot0900 == <<"0", "9", ":", "0", "0">>
Conf(tz, times, enabled) == [timezone |-> tz, times |-> times, enabled |-> enabled]
ConfigChoices ==
  { [u \in UserSet |-> IF u = "u1" THEN Some(Conf(<<"UTC">>, <<Slot0900, Slot0900>>, TRUE))
                                   ELSE Some(Conf(<<"UTC">>, <<Slot0900>>, FALSE))],
    [u \in UserSet |-> IF u = "u1" THEN Some(Conf(<<" ">>, <<Slot0900>>, TRUE))
                                   ELSE Some(Conf(<<"UTC">>, <<Slot0900>>, TRUE))] }

\* nudge_configs rows for the schedule: u1 without row, or with one slot in
\* UTC or in New York; u2 without row, or disabled with any zone and slots
NewYork == <<"America/New_York">>
DisabledConfs ==
  { Conf(tz, times, FALSE) :
      tz \in {<<"UTC">>, NewYork, <<>>, <<"Mars/Phobos">>},
      times \in {<<>>, <<Slot0900>>, <<Slot0900, <<"2", "5", ":", "0", "0">>, <<"1", "7", ":", "3", "0">> >>} }
ScheduleConfigs ==
  { [u \in UserSet |-> IF u = "u1" THEN c1 ELSE Some(c2)] :
      c1 \in {NULL, Some(Conf(<<"UTC">>, <<Slot0900>>, TRUE)), Some(Conf(NewYork, <<Slot0900>>, TRUE))},
      c2 \in DisabledConfs }
  \cup
  { [u \in UserSet |-> IF u = "u1" THEN Some(Conf(tz, <<Slot0900>>, TRUE)) ELSE NULL] :
      tz \in {<<"UTC">>, NewYork} }

\* slot strings a row can hold: well-formed ones, a one-digit hour, hour 24,
\* minute 60, no colon, the empty string
Slot1300 == <<"1", "3", ":", "0", "0">>
Slot0130 == <<"0", "1", ":", "3", "0">>
SlotStrings ==
  { Slot0900, <<"0", "0", ":", "0", "0">>, <<"2", "3", ":", "5", "9">>,
    <<"9", ":", "0", "0">>, <<"2", "4", ":", "0", "0">>, <<"1", "2", ":", "6", "0">>,
    <<"0", "9", "0", "0">>, <<>> }

\* zone strings a row can hold: resolvable, empty, blank, padded, unknown
ZoneStrings ==
  { <<"UTC">>, NewYork, <<>>, <<" ">>, <<" ", "America/New_York", " ">>, <<"Mars/Phobos">> }

\* nudge_configs rows for the slots: u1 with any zone and one slot, or a good
\* slot next to a bad one; u2 with one good slot in UTC
SlotConfigs ==
  { [u \in UserSet |-> IF u = "u1" THEN Some(Conf(tz, times, TRUE))
                                   ELSE Some(Conf(<<"UTC">>, <<Slot1300>>, TRUE))] :
      tz \in ZoneStrings,
      times \in {<<slot>> : slot \in SlotStrings}
                 \cup {<<<<"2", "4", ":", "0", "0">>, Slot0900>>, <<Slot0900, <<>>>>} }

\* instants the schedule is resolved at: day 0 in the morning; day 1 at
\* 02:00 UTC (still day 0 in New York), at 05:00 UTC (day 1 in New York, one
\* hour before daylight saving ends) and at 17:00 UTC
StartInstants ==
  {StartNow, MinPerDay + 2 * MinPerHour, MinPerDay + 5 * MinPerHour, MinPerDay + 17 * MinPerHour}

\* one task of u1 per due date and status, for the classification: due the
\* day before the days the clock is read on, on them, and up to three days
\* after
MaxDue == 4
TaskChoices ==
  { << [id |-> 1, owner_id |-> "u1", due_date |-> d, status |-> st, updated_at |-> 0] >> :
      d \in 0..MaxDue, st \in {"todo", "in_progress", "done"} }

\* instants the tasks are classified at: day 1 at 00:00, 12:00 and 23:59 UTC
ClassifyInstants ==
  {MinPerDay, MinPerDay + 12 * MinPerHour, MinPerDay + 23 * MinPerHour + 59}

\* tasks rows the model starts from
InitTasks ==
  << [id |-> 1, owner_id |-> "u1", due_date |-> 0, status |-> "todo", updated_at |-> 0],
     [id |-> 2, owner_id |-> "u1", due_date |-> 1, status |-> "done", updated_at |-> 0] >>

VARIABLES
  now,        \* the wall clock
  configs,    \* nudge_configs: user -> NULL or Some(row)
  tasks,      \* tasks rows
  nudges,     \* nudges rows; a row's id is its index
  inv,        \* per trigger invocation: position and locals of GET
  resp,       \* per trigger invocation: its response
  hist,       \* per trigger invocation: what it did (sends, updates, inserts)
  mailed,     \* ids whose acknowledgement link reached a mailbox
  lastAck,    \* the response of the last acknowledgement request
  uiView,     \* ids the nudge-history page shows a "Mark acknowledged" button for
  org,        \* profiles.role and profiles.manager_id: user -> [role, manager_id]
  reports,    \* manager_reports rows; a row's id is its index
  rinv,       \* per report-trigger invocation: position and locals of GET
  rresp,      \* per report-trigger invocation: its response
  rhist       \* per report-trigger invocation: what it did (sends, writes)

\* the state of the report trigger, and the state only the dispatch trigger,
\* the acknowledgement endpoint and the page change
reportVars == <<org, reports, rinv, rresp, rhist>>
dispatchVars == <<configs, nudges, inv, resp, hist, mailed, lastAck, uiView>>

vars == <<now, configs, tasks, nudges, inv, resp, hist, mailed, lastAck, uiView,
          org, reports, rinv, rresp, rhist>>

\* --------------------------------------------------------- authorization
startsWith(s, prefix) == Len(s) >= Len(prefix) /\ SubSeq(s, 1, Len(prefix)) = prefix
slice(s, from) == SubSeq(s, from + 1, Len(s))

\* variant: any header that starts with "Bearer " passes
isAuthorizedCronAnyBearer(authHeader) ==
  IF CRON_SECRET = <<>> THEN TRUE
  ELSE IF authHeader = <<>> THEN FALSE
  ELSE IF authHeader = CRON_SECRET THEN TRUE
  ELSE startsWith(authHeader, Bearer)

\* isAuthorizedCron(req); authHeader is <<>> when neither header is present
isAuthorizedCron(authHeader) ==
  IF CRON_SECRET = <<>> THEN TRUE
  ELSE IF authHeader = <<>> THEN FALSE
  ELSE IF authHeader = CRON_SECRET THEN TRUE
  ELSE IF startsWith(authHeader, Bearer) THEN slice(authHeader, 7) = CRON_SECRET
  ELSE FALSE

\* ------------------------------------------------------ task snapshot
Take3(s) == SubSeq(s, 1, Min2(3, Len(s)))
IdsOf(s) == [k \in 1..Len(s) |-> s[k].id]

\* the payload built in the dispatch loop from a user's tasks at instant t
buildSnapshot(myTasks, t) ==
  LET todayDate == t \div MinPerDay
      todayEnd == (todayDate + 1) * MsPerDay - 1
      dueMs(task) == (task.due_date + 1) * MsPerDay - 1000
      isOverdue(task) == task.status # "done" /\ dueMs(task) < t * MsPerMin
      isDueToday(task) == task.status # "done" /\ task.due_date = todayDate
      isDueSoon(task) ==
        IF task.status = "done" THEN FALSE
        ELSE LET diffDays == (dueMs(task) - todayEnd) \div MsPerDay
             IN diffDays >= 0 /\ diffDays <= 1
      isOpen(task) == task.status # "done"
      isDone(task) == task.status = "done"
      overdue == SelectSeq(myTasks, isOverdue)
      dueToday == SelectSeq(myTasks, isDueToday)
      dueSoon == SelectSeq(myTasks, isDueSoon)
  IN [counts |-> [overdue |-> Len(overdue), dueToday |-> Len(dueToday),
                  dueSoon |-> Len(dueSoon),
                  open |-> Len(SelectSeq(myTasks, isOpen)),
                  done |-> Len(SelectSeq(myTasks, isDone))],
      sample |-> [overdue |-> IdsOf(Take3(overdue)), dueToday |-> IdsOf(Take3(dueToday)),
                  dueSoon |-> IdsOf(Take3(dueSoon))]]

\* ------------------------------------------------ acknowledgement tokens
\* A token is the sequence of the character codes of its string.
HexCodes == <<48, 49, 50, 51, 52, 53, 54, 55, 56, 57, 97, 98, 99, 100, 101, 102>>

\* crypto.createHmac("sha256", secret).update(id).digest("hex"): a keyed
\* function of the id, TokenLen hex characters long (64 in the program)
Hmac(id) == [k \in 1..TokenLen |-> HexCodes[((5 * id + 3 * k) % 16) + 1]]

buildAckToken(id) == Hmac(id)

\* Buffer.from(s).length: a character above 0x7f takes two bytes in UTF-8
RECURSIVE ByteLength(_)
ByteLength(s) ==
  IF s = <<>> THEN 0
  ELSE (IF Head(s) < 128 THEN 1 ELSE 2) + ByteLength(Tail(s))

\* variant: the comparison ignores the case of the hex letters
verifyTokenAnyCase(id, token) ==
  LET expected == Hmac(id)
      lower(c) == IF c >= 65 /\ c <= 90 THEN c + 32 ELSE c
  IN IF Len(expected) # Len(token) THEN "false"
     ELSE IF expected = [k \in 1..Len(token) |-> lower(token[k])] THEN "true"
     ELSE "false"

\* verifyToken(id, token): "true", "false", or "throw" (crypto.timingSafeEqual
\* throws a RangeError when the two buffers differ in byte length)
verifyToken(id, token) ==
  LET expected == Hmac(id)
  IN IF ByteLength(expected) # ByteLength(token) THEN "throw"
     ELSE IF expected = token THEN "true"
     ELSE "false"

Pow2(b) == 2 ^ b
FlipBit(c, b) == IF (c \div Pow2(b)) % 2 = 1 THEN c - Pow2(b) ELSE c + Pow2(b)

\* the tokens that differ from tok in exactly one bit of one character
BitFlips(tok) ==
  { [tok EXCEPT ![k] = FlipBit(tok[k], b)] : k \in 1..Len(tok), b \in 0..7 }

\* ------------------------------------------------------------ the state
\* Invocation p of the dispatch trigger is idle until the request arrives
\* and done once it has responded; invocations arrive in the order 1, 2, ...
NoUpd == [status |-> "", sent_at |-> NULL, payload |-> NULL]
IdleInv == [pc |-> "idle", ensure |-> <<>>, nowISO |-> 0, due |-> <<>>, i |-> 0,
            upd |-> NoUpd, sentCount |-> 0]
\* selected: ids the due query returned; attempts: the sendEmail calls;
\* okSends: ids whose sendEmail resolved ok; updated: ids written as sent;
\* created: rows inserted; overlap: another invocation ran meanwhile;
\* processed: ids whose update (sent or failed) the loop has issued;
\* failed: ids for which a call of the loop failed (a storage error, or an
\* exception of sendEmail)
NoHist == [selected |-> {}, attempts |-> {}, okSends |-> {}, updated |-> {}, created |-> 0,
           overlap |-> FALSE, processed |-> {}, failed |-> {}]
Response(status, text, users, sent) ==
  [status |-> status, text |-> text, ensured_for_users |-> users, nudges_sent |-> sent]
NoAck == [status |-> 0, again |-> FALSE, tampered |-> FALSE, bytes |-> 0]

\* profiles.role and profiles.manager_id of one user; a new profile is a
\* 'user' without manager
Member(role, manager) == [role |-> role, manager_id |-> manager]
DefaultOrg == [u \in UserSet |-> Member("user", NULL)]

\* Invocation p of the report trigger, like those of the dispatch trigger
IdleRep == [pc |-> "idle", today |-> 0, managers |-> <<>>, m |-> 0, summary |-> NULL,
            existing |-> NULL, sentCount |-> 0]
\* attempts: the managers sendEmail was called for; okSends: those whose
\* sendEmail resolved ok; written: ids of the rows inserted or updated;
\* today: the date the invocation ran for
NoRepHist == [attempts |-> {}, okSends |-> {}, written |-> {}, overlap |-> FALSE, today |-> 0]

\* the state at instant t with the nudge_configs rows cs, the roles o and the
\* tasks ts: no nudge, no report, no request yet
InitAll(t, cs, o, ts) ==
  /\ now = t
  /\ configs = cs
  /\ tasks = ts
  /\ nudges = <<>>
  /\ inv = [p \in Procs |-> IdleInv]
  /\ resp = [p \in Procs |-> NULL]
  /\ hist = [p \in Procs |-> NoHist]
  /\ mailed = {}
  /\ lastAck = NoAck
  /\ uiView = {}
  /\ org = o
  /\ reports = <<>>
  /\ rinv = [p \in Procs |-> IdleRep]
  /\ rresp = [p \in Procs |-> NULL]
  /\ rhist = [p \in Procs |-> NoRepHist]

InitWith(t, cs, o) == InitAll(t, cs, o, InitTasks)

Init == \E cs \in ConfigChoices : InitWith(StartNow, cs, DefaultOrg)

\* the clock advances
Tick ==
  /\ now < StartNow + MaxTicks * TickStep
  /\ now' = now + TickStep
  /\ UNCHANGED <<configs, tasks, nudges, inv, resp, hist, mailed, lastAck, uiView, reportVars>>

\* ------------------------------------------------- the dispatch trigger
\* variant: the fallback has no evening slot
DefaultTimesNoEvening == << <<"0", "9", ":", "0", "0">>, <<"1", "3", ":", "0", "0">> >>

\* conf?.times ?? ["09:00", "13:00", "17:00"]
DefaultTimes == << <<"0", "9", ":", "0", "0">>, <<"1", "3", ":", "0", "0">>,
                   <<"1", "7", ":", "0", "0">> >>

\* variant: enabled is not read
UserEnsureIgnoreEnabled(u, t) ==
  LET conf == configs[u]
      times == IF conf = NULL THEN DefaultTimes ELSE Val(conf).times
      timezone == IF conf # NULL /\ Val(conf).timezone # <<>>
                       /\ trim(Val(conf).timezone) # <<>>
                  THEN trim(Val(conf).timezone) ELSE <<"UTC">>
  IN [k \in 1..Len(times) |->
        LET scheduledISO == parseTimeToUTCISO(times[k], timezone, t)
        IN [user |-> u, sched |-> scheduledISO,
            st |-> IF scheduledISO = NULL THEN "done" ELSE "select"]]

\* variant: a slot that does not resolve ends the profile's ensure loop
UserEnsureStopAtInvalid(u, t) ==
  LET all == UserEnsureIgnoreEnabled(u, t)
      bad == {k \in 1..Len(all) : all[k].sched = NULL}
  IN IF configs[u] # NULL /\ Val(configs[u]).enabled = FALSE THEN <<>>
     ELSE IF bad = {} THEN all
     ELSE SubSeq(all, 1, (CHOOSE k \in bad : \A j \in bad : k <= j))

\* the ensure promises GET creates for one profile at instant t: each runs
\* parseTimeToUTCISO at once and, unless it returned null, awaits its select
UserEnsure(u, t) ==
  LET conf == configs[u]
  IN IF conf # NULL /\ Val(conf).enabled = FALSE THEN <<>>
     ELSE LET times == IF conf = NULL THEN DefaultTimes ELSE Val(conf).times
              timezone == IF conf # NULL /\ Val(conf).timezone # <<>>
                               /\ trim(Val(conf).timezone) # <<>>
                          THEN trim(Val(conf).timezone) ELSE <<"UTC">>
          IN [k \in 1..Len(times) |->
                LET scheduledISO == parseTimeToUTCISO(times[k], timezone, t)
                IN [user |-> u, sched |-> scheduledISO,
                    st |-> IF scheduledISO = NULL THEN "done" ELSE "select"]]

RECURSIVE EnsureFrom(_, _)
EnsureFrom(k, t) ==
  IF k > Len(Users) THEN <<>> ELSE UserEnsure(Users[k], t) \o EnsureFrom(k + 1, t)

Active(q) == inv[q].pc \notin {"idle", "done"}

\* GET returns a response
Finish(p, response) ==
  /\ inv' = [inv EXCEPT ![p] = [IdleInv EXCEPT !.pc = "done"]]
  /\ resp' = [resp EXCEPT ![p] = Some(response)]

\* GET up to the first await of the ensure promises: authorization, the
\* profiles and nudge_configs reads, the ensure loop
Begin(p, authHeader) ==
  /\ IF ~isAuthorizedCron(authHeader)
     THEN /\ Finish(p, Response(401, "Unauthorized", 0, 0))
          /\ hist' = [hist EXCEPT ![p] = NoHist]
     ELSE /\ inv' = [inv EXCEPT ![p] = [IdleInv EXCEPT !.pc = "ensure",
                                                       !.ensure = EnsureFrom(1, now)]]
          /\ hist' = [q \in Procs |->
                        IF q = p THEN [NoHist EXCEPT !.overlap = \E r \in Procs \ {p} : Active(r)]
                        ELSE IF Active(q) THEN [hist[q] EXCEPT !.overlap = TRUE]
                        ELSE hist[q]]
          /\ resp' = [resp EXCEPT ![p] = NULL]
  /\ UNCHANGED <<now, configs, tasks, nudges, mailed, lastAck, uiView, reportVars>>

\* the request of invocation p arrives
Start(p, authHeader) ==
  /\ inv[p].pc = "idle"
  /\ \A q \in Procs : q < p => inv[q].pc # "idle"
  /\ Begin(p, authHeader)

\* the scheduler calls the trigger again once the previous call has returned
Retrigger(p, authHeader) ==
  /\ inv[p].pc = "done"
  /\ Begin(p, authHeader)

\* supabase-js maybeSingle(): the row when exactly one matches; null when
\* none matches, and null (with an error) when several match
maybeSingle(matching) ==
  IF Cardinality(matching) = 1 THEN Some(CHOOSE id \in matching : TRUE) ELSE NULL

Matching(u, sched) ==
  {id \in 1..Len(nudges) : nudges[id].user_id = u /\ nudges[id].scheduled_at = sched}

\* an ensure promise's select returns
EnsureSelect(p, k) ==
  /\ inv[p].pc = "ensure"
  /\ k \in 1..Len(inv[p].ensure)
  /\ inv[p].ensure[k].st = "select"
  /\ LET e == inv[p].ensure[k]
         exists == maybeSingle(Matching(e.user, Val(e.sched)))
     IN inv' = [inv EXCEPT ![p].ensure[k].st = IF exists # NULL THEN "done" ELSE "insert"]
  /\ UNCHANGED <<now, configs, tasks, nudges, resp, hist, mailed, lastAck, uiView, reportVars>>

NewNudge(u, sched) ==
  [user_id |-> u, scheduled_at |-> sched, sent_at |-> NULL, acknowledged_at |-> NULL,
   status |-> "scheduled", payload |-> NULL]

\* the nudges table accepts the insert (no constraint of the schema refuses
\* a second row for the same user and instant); a full table returns an
\* error, which the caller does not inspect
InsertNudge(rows, row) == IF Len(rows) < MaxNudges THEN Append(rows, row) ELSE rows

\* an ensure promise's insert returns
EnsureInsert(p, k) ==
  /\ inv[p].pc = "ensure"
  /\ k \in 1..Len(inv[p].ensure)
  /\ inv[p].ensure[k].st = "insert"
  /\ LET e == inv[p].ensure[k]
     IN /\ nudges' = InsertNudge(nudges, NewNudge(e.user, Val(e.sched)))
        /\ hist' = [hist EXCEPT ![p].created = @ + (Len(nudges') - Len(nudges))]
  /\ inv' = [inv EXCEPT ![p].ensure[k].st = "done"]
  /\ UNCHANGED <<now, configs, tasks, resp, mailed, lastAck, uiView, reportVars>>

\* variants of the due filter: without the sent_at condition, and with a
\* condition on status
IsDueAnySent(row, nowISO) == row.scheduled_at <= nowISO
IsDueScheduledOnly(row, nowISO) ==
  row.scheduled_at <= nowISO /\ row.sent_at = NULL /\ row.status = "scheduled"

\* .lte("scheduled_at", nowISO).is("sent_at", null), in id order
IsDue(row, nowISO) == row.scheduled_at <= nowISO /\ row.sent_at = NULL

DueRows(nowISO) ==
  LET all == [id \in 1..Len(nudges) |->
                [id |-> id, user_id |-> nudges[id].user_id,
                 scheduled_at |-> nudges[id].scheduled_at, sent_at |-> nudges[id].sent_at,
                 status |-> nudges[id].status]]
      due(r) == IsDue(r, nowISO)
  IN SelectSeq(all, due)

Counts(p, sentCount) == Response(200, "", Len(Users), sentCount)

\* variant: the due query does not wait for the ensure promises
DueQueryNoAwait(p) ==
  /\ inv[p].pc = "ensure"
  /\ LET dueNudges == DueRows(now)
     IN IF dueNudges = <<>>
        THEN /\ Finish(p, Counts(p, 0))
             /\ UNCHANGED hist
        ELSE /\ inv' = [inv EXCEPT ![p] = [IdleInv EXCEPT !.pc = "tasks", !.nowISO = now,
                                                          !.due = dueNudges, !.i = 1]]
             /\ hist' = [hist EXCEPT ![p].selected =
                           {dueNudges[k].id : k \in 1..Len(dueNudges)}]
             /\ UNCHANGED resp
  /\ UNCHANGED <<now, configs, tasks, nudges, mailed, lastAck, uiView, reportVars>>

\* Promise.all(ensurePromises) has resolved: the due query returns
DueQuery(p) ==
  /\ inv[p].pc = "ensure"
  /\ \A k \in 1..Len(inv[p].ensure) : inv[p].ensure[k].st = "done"
  /\ LET dueNudges == DueRows(now)
     IN IF dueNudges = <<>>
        THEN /\ Finish(p, Counts(p, 0))
             /\ UNCHANGED hist
        ELSE /\ inv' = [inv EXCEPT ![p] = [IdleInv EXCEPT !.pc = "tasks", !.nowISO = now,
                                                          !.due = dueNudges, !.i = 1]]
             /\ hist' = [hist EXCEPT ![p].selected =
                           {dueNudges[k].id : k \in 1..Len(dueNudges)}]
             /\ UNCHANGED resp
  /\ UNCHANGED <<now, configs, tasks, nudges, mailed, lastAck, uiView, reportVars>>

Cur(p) == inv[p].due[inv[p].i]

\* the payload of the nudge the loop is at, from its owner's tasks
Payload(p) ==
  LET owned(t) == t.owner_id = Cur(p).user_id
  IN buildSnapshot(SelectSeq(tasks, owned), now)

\* variant: the send is not conditional on the email
SendsMailAlways(email) == TRUE

\* if (email): sendEmail is called only for a profile with an email
SendsMail(email) == email # ""

\* the update the loop issues for a nudge: the outcome of sendEmail decides
\* between .update({sent_at, status: "sent", payload}) and
\* .update({status: "failed"}); without an email there is no send
UpdateFor(email, ok, sentAt, payload) ==
  IF SendsMail(email) /\ ok
  THEN [status |-> "sent", sent_at |-> Some(sentAt), payload |-> Some(payload)]
  ELSE [status |-> "failed", sent_at |-> NULL, payload |-> NULL]

\* one loop iteration up to its update: the tasks read returns, the snapshot
\* is built, and when the profile has an email sendEmail is called and
\* resolves with {ok}; on ok the mail, and the link in it, is out. ok is the
\* answer of the mail transport (the development stub always answers ok);
\* without a send there is no answer, and ok is fixed to keep one step
LoopSend(p, ok) ==
  /\ inv[p].pc = "tasks"
  /\ LET nudge == Cur(p)
         email == profiles[nudge.user_id].email
     IN /\ inv' = [inv EXCEPT ![p].pc = "update",
                              ![p].upd = UpdateFor(email, ok, now, Payload(p))]
        /\ hist' = IF SendsMail(email)
                   THEN [hist EXCEPT ![p].attempts = @ \cup
                           {[id |-> nudge.id, scheduled_at |-> nudge.scheduled_at,
                             nowISO |-> inv[p].nowISO, selected_sent_at |-> nudge.sent_at,
                             stored_sent_at |-> nudges[nudge.id].sent_at]},
                                      ![p].okSends = IF ok THEN @ \cup {nudge.id} ELSE @]
                   ELSE hist
        /\ mailed' = IF SendsMail(email) /\ ok THEN mailed \cup {nudge.id} ELSE mailed
        /\ ~SendsMail(email) => ok
  /\ UNCHANGED <<now, configs, tasks, nudges, resp, lastAck, uiView, reportVars>>

\* variants of the success update: without the payload, without sent_at
MarkSentNoPayload(row, upd) == [row EXCEPT !.sent_at = upd.sent_at, !.status = "sent"]
MarkSentNoStamp(row, upd) == [row EXCEPT !.status = "sent", !.payload = upd.payload]

\* .update({sent_at, status: "sent", payload}).eq("id", nudge.id)
MarkSent(row, upd) ==
  [row EXCEPT !.sent_at = upd.sent_at, !.status = "sent", !.payload = upd.payload]

\* .update({status: "failed"}).eq("id", nudge.id)
MarkFailed(row) == [row EXCEPT !.status = "failed"]

ApplyUpdate(row, upd) == IF upd.status = "sent" THEN MarkSent(row, upd) ELSE MarkFailed(row)

\* the update returns; the loop moves to the next due nudge, or GET returns
Update(p) ==
  /\ inv[p].pc = "update"
  /\ nudges' = [nudges EXCEPT ![Cur(p).id] = ApplyUpdate(@, inv[p].upd)]
  /\ LET sent == inv[p].upd.status = "sent"
         sentCount == IF sent THEN inv[p].sentCount + 1 ELSE inv[p].sentCount
     IN /\ hist' = [hist EXCEPT ![p].updated = IF sent THEN @ \cup {Cur(p).id} ELSE @,
                                ![p].processed = @ \cup {Cur(p).id}]
        /\ IF inv[p].i = Len(inv[p].due)
           THEN Finish(p, Counts(p, sentCount))
           ELSE /\ inv' = [inv EXCEPT ![p].pc = "tasks", ![p].i = @ + 1,
                                      ![p].upd = NoUpd, ![p].sentCount = sentCount]
                /\ UNCHANGED resp
  /\ UNCHANGED <<now, configs, tasks, mailed, lastAck, uiView, reportVars>>

\* ------------------------------------------- the acknowledgement endpoint
\* variant: the acknowledgement toggles
MarkAcknowledgedToggle(row, at) ==
  IF row.acknowledged_at # NULL
  THEN [row EXCEPT !.acknowledged_at = NULL, !.status = "sent"]
  ELSE [row EXCEPT !.acknowledged_at = Some(at), !.status = "acknowledged"]

\* .update({acknowledged_at, status: "acknowledged"}).eq("id", id)
MarkAcknowledged(row, at) == [row EXCEPT !.acknowledged_at = Some(at), !.status = "acknowledged"]

\* the tokens of the holder of the link: the valid one once its mail is out
LinkTokens(id) == IF id \in mailed THEN {buildAckToken(id)} ELSE {}

\* the tokens a request for id may carry: the link's, every one-bit change of
\* the valid one, a shorter and a longer one, none
AckTokens(id) ==
  LinkTokens(id) \cup BitFlips(Hmac(id))
    \cup {<<>>, SubSeq(Hmac(id), 1, TokenLen - 1), Hmac(id) \o <<48>>}

\* what the handler decides: "ok", "reject", or "throw"
AckVerdict(id, token) ==
  IF id = NULL \/ token = <<>> THEN "reject"
  ELSE LET v == verifyToken(Val(id), token)
       IN IF v = "true" THEN "ok" ELSE IF v = "false" THEN "reject" ELSE "throw"

\* GET /api/nudges/ack?i=id&t=token; id is NULL when the parameter is
\* missing; an exception leaving the handler is answered with status 500.
\* lastAck keeps the response, whether the row was acknowledged before,
\* whether the token was a one-bit change of the valid token of a row, and
\* the token's length in bytes
Ack(id, token) ==
  /\ IF AckVerdict(id, token) = "ok"
     THEN nudges' = [k \in 1..Len(nudges) |->
                       IF k = Val(id) THEN MarkAcknowledged(nudges[k], now) ELSE nudges[k]]
     ELSE UNCHANGED nudges
  /\ lastAck' = [status |-> IF AckVerdict(id, token) = "ok" THEN 200
                            ELSE IF AckVerdict(id, token) = "throw" THEN 500 ELSE 400,
                 again |-> /\ AckVerdict(id, token) = "ok"
                           /\ Val(id) \in 1..Len(nudges)
                           /\ nudges[Val(id)].acknowledged_at # NULL,
                 tampered |-> /\ id # NULL
                              /\ Val(id) \in 1..Len(nudges)
                              /\ token \in BitFlips(Hmac(Val(id))),
                 bytes |-> ByteLength(token)]
  /\ UNCHANGED <<now, configs, tasks, inv, resp, hist, mailed, uiView, reportVars>>

\* ------------------------------------------------- the nudge-history page
\* the page loads the user's nudges; the button shows for status "sent"
\* rows without acknowledged_at
LoadPage(u) ==
  /\ uiView' = {id \in 1..Len(nudges) : /\ nudges[id].user_id = u
                                        /\ nudges[id].status = "sent"
                                        /\ nudges[id].acknowledged_at = NULL}
  /\ UNCHANGED <<now, configs, tasks, nudges, inv, resp, hist, mailed, lastAck, reportVars>>

\* acknowledge(id) from the button
acknowledge(id) ==
  /\ id \in uiView
  /\ nudges' = [nudges EXCEPT ![id] = MarkAcknowledged(@, now)]
  /\ uiView' = uiView \ {id}
  /\ UNCHANGED <<now, configs, tasks, inv, resp, hist, mailed, lastAck, reportVars>>

\* ------------------------------------------------------ the report trigger
\* the roles the model starts from: u1 manages u2; u2 (without email)
\* manages u1; both are managers without a team
OrgChoices ==
  { [u \in UserSet |-> IF u = "u1" THEN Member("manager", NULL)
                                   ELSE Member("user", Some("u1"))],
    [u \in UserSet |-> IF u = "u2" THEN Member("manager", NULL)
                                   ELSE Member("user", Some("u2"))],
    [u \in UserSet |-> Member("manager", NULL)] }

\* new Date().toISOString().slice(0, 10) at instant t: the UTC day
todayUtcDateStr(t) == t \div MinPerDay

\* .from("profiles").eq("role", "manager")
Managers ==
  LET isManager(u) == org[u].role = "manager"
  IN SelectSeq(Users, isManager)

\* .from("profiles").eq("manager_id", manager.id)
Team(manager) ==
  LET inTeam(u) == org[u].manager_id = Some(manager)
  IN SelectSeq(Users, inTeam)

\* the perUser stats of a team from its tasks, for the run's date today,
\* computed at instant t (Date.now())
perUserStats(team, teamTasks, today, t) ==
  [u \in {team[k] : k \in 1..Len(team)} |->
     LET mine == {k \in 1..Len(teamTasks) : teamTasks[k].owner_id = u}
         isDone(k) == teamTasks[k].status = "done"
         due(k) == (teamTasks[k].due_date + 1) * MsPerDay - 1000
         todayEnd == (today + 1) * MsPerDay - 1
         isOverdue(k) == due(k) < t * MsPerMin
         diffDays(k) == (due(k) - todayEnd) \div MsPerDay
     IN [completedToday |->
           Cardinality({k \in mine : /\ isDone(k)
                                     /\ teamTasks[k].updated_at \div MinPerDay = today}),
         open |-> Cardinality({k \in mine : ~isDone(k)}),
         overdue |-> Cardinality({k \in mine : ~isDone(k) /\ isOverdue(k)}),
         dueSoon |-> Cardinality({k \in mine : /\ ~isDone(k) /\ ~isOverdue(k)
                                              /\ diffDays(k) >= 0 /\ diffDays(k) <= 1})]]

\* the summary of a manager's report: the tasks of the team are read and the
\* stats computed at instant t
Summary(manager, today, t) ==
  LET team == Team(manager)
      ofTeam(task) == \E k \in 1..Len(team) : team[k] = task.owner_id
  IN [date |-> today, perUser |-> perUserStats(team, SelectSeq(tasks, ofTeam), today, t)]

RepResponse(status, text, sent, considered) ==
  [status |-> status, text |-> text, reports_sent |-> sent, managers_considered |-> considered]

RepCounts(sentCount, considered) == RepResponse(200, "", sentCount, considered)

RepActive(q) == rinv[q].pc \notin {"idle", "done"}

\* GET returns a response
RepFinish(p, response) ==
  /\ rinv' = [rinv EXCEPT ![p] = [IdleRep EXCEPT !.pc = "done"]]
  /\ rresp' = [rresp EXCEPT ![p] = Some(response)]

\* GET up to the return of the managers read: authorization, today's date
RepBegin(p, authHeader) ==
  /\ IF ~isAuthorizedCron(authHeader)
     THEN /\ RepFinish(p, RepResponse(401, "Unauthorized", 0, 0))
          /\ rhist' = [rhist EXCEPT ![p] = NoRepHist]
     ELSE /\ rhist' = [q \in Procs |->
                         IF q = p
                         THEN [NoRepHist EXCEPT !.overlap = \E r \in Procs \ {p} : RepActive(r),
                                                !.today = todayUtcDateStr(now)]
                         ELSE IF RepActive(q) THEN [rhist[q] EXCEPT !.overlap = TRUE]
                         ELSE rhist[q]]
          /\ IF Managers = <<>>
             THEN RepFinish(p, RepCounts(0, 0))
             ELSE /\ rinv' = [rinv EXCEPT ![p] = [IdleRep EXCEPT !.pc = "team",
                                                                !.today = todayUtcDateStr(now),
                                                                !.managers = Managers,
                                                                !.m = 1]]
                  /\ rresp' = [rresp EXCEPT ![p] = NULL]
  /\ UNCHANGED <<now, tasks, org, reports, dispatchVars>>

\* the request of report invocation p arrives
RepStart(p, authHeader) ==
  /\ rinv[p].pc = "idle"
  /\ \A q \in Procs : q < p => rinv[q].pc # "idle"
  /\ RepBegin(p, authHeader)

RepCur(p) == rinv[p].managers[rinv[p].m]

\* the team read returns and, for a team with members, the tasks read: the
\* stats are computed; an empty team goes to its mail at once
RepTeam(p) ==
  /\ rinv[p].pc = "team"
  /\ rinv' = IF Team(RepCur(p)) = <<>>
             THEN [rinv EXCEPT ![p].pc = "send"]
             ELSE [rinv EXCEPT ![p].pc = "select",
                               ![p].summary = Some(Summary(RepCur(p), rinv[p].today, now))]
  /\ UNCHANGED <<now, tasks, org, reports, rresp, rhist, dispatchVars>>

MatchingReports(manager, today) ==
  {id \in 1..Len(reports) : /\ reports[id].manager_id = manager
                            /\ reports[id].report_date = today}

\* the select of the existing report returns
RepSelect(p) ==
  /\ rinv[p].pc = "select"
  /\ rinv' = [rinv EXCEPT ![p].pc = "write",
                          ![p].existing = maybeSingle(MatchingReports(RepCur(p), rinv[p].today))]
  /\ UNCHANGED <<now, tasks, org, reports, rresp, rhist, dispatchVars>>

\* .insert({manager_id, report_date, summary, status: "sent", sent_at})
NewReport(manager, today, summary, at) ==
  [manager_id |-> manager, report_date |-> today, sent_at |-> Some(at), status |-> "sent",
   summary |-> summary]

\* variant: the update leaves the summary of the existing row
OverwriteReportKeepSummary(row, summary, at) ==
  [row EXCEPT !.status = "sent", !.sent_at = Some(at)]

\* .update({summary, status: "sent", sent_at}).eq("id", existing.id)
OverwriteReport(row, summary, at) ==
  [row EXCEPT !.summary = summary, !.status = "sent", !.sent_at = Some(at)]

\* the update or the insert of the report returns
RepWrite(p) ==
  /\ rinv[p].pc = "write"
  /\ LET existing == rinv[p].existing
         id == IF existing # NULL THEN Val(existing) ELSE Len(reports) + 1
     IN /\ reports' = IF existing # NULL
                      THEN [reports EXCEPT ![id] = OverwriteReport(@, rinv[p].summary, now)]
                      ELSE Append(reports, NewReport(RepCur(p), rinv[p].today,
                                                     rinv[p].summary, now))
        /\ rhist' = [rhist EXCEPT ![p].written = @ \cup {id}]
  /\ rinv' = [rinv EXCEPT ![p].pc = "send"]
  /\ UNCHANGED <<now, tasks, org, rresp, dispatchVars>>

\* if (manager.email): the report is mailed only to a manager with an email
RepSendsMail(email) == email # ""

\* sentCount after the mail step: counted when sendEmail was called and has
\* resolved, whatever it resolved with
RepCount(sentCount, email, ok) == IF RepSendsMail(email) THEN sentCount + 1 ELSE sentCount

\* the mail step of the manager the loop is at: sendEmail, when called,
\* resolves with {ok}; the loop moves to the next manager, or GET returns
RepSend(p, ok) ==
  /\ rinv[p].pc = "send"
  /\ LET manager == RepCur(p)
         email == profiles[manager].email
         sentCount == RepCount(rinv[p].sentCount, email, ok)
     IN /\ ~RepSendsMail(email) => ok
        /\ rhist' = IF RepSendsMail(email)
                    THEN [rhist EXCEPT ![p].attempts = @ \cup {manager},
                                       ![p].okSends = IF ok THEN @ \cup {manager} ELSE @]
                    ELSE rhist
        /\ IF rinv[p].m = Len(rinv[p].managers)
           THEN RepFinish(p, RepCounts(sentCount, Len(rinv[p].managers)))
           ELSE /\ rinv' = [rinv EXCEPT ![p].pc = "team", ![p].m = @ + 1,
                                        ![p].summary = NULL, ![p].existing = NULL,
                                        ![p].sentCount = sentCount]
                /\ UNCHANGED rresp
  /\ UNCHANGED <<now, tasks, org, reports, dispatchVars>>

\* saveDraft on an existing task: its owner changes its status; the
\* set_updated_at trigger stamps the row
SaveTask(k, status) ==
  /\ k \in 1..Len(tasks)
  /\ tasks[k].status # status
  /\ tasks' = [tasks EXCEPT ![k].status = status, ![k].updated_at = now]
  /\ UNCHANGED <<now, reportVars, dispatchVars>>

\* ------------------------------------------------ failing collaborators
\* A supabase-js call that fails resolves with {data: null, error}; it does
\* not throw. sendEmail is an async function: its failure is a rejection,
\* which the await turns into an exception. An exception that leaves GET is
\* answered by the framework with status 500.
ErrorResponse == Response(500, "error", 0, 0)
RepErrorResponse == RepResponse(500, "error", 0, 0)

\* the request of invocation p arrives with the secret and the profiles read
\* fails: if (profErr) return 500
StartProfilesFail(p) ==
  /\ inv[p].pc = "idle"
  /\ \A q \in Procs : q < p => inv[q].pc # "idle"
  /\ Finish(p, ErrorResponse)
  /\ hist' = [hist EXCEPT ![p] = NoHist]
  /\ UNCHANGED <<now, configs, tasks, nudges, mailed, lastAck, uiView, reportVars>>

\* the due query fails: if (nErr) return 500
DueQueryFails(p) ==
  /\ inv[p].pc = "ensure"
  /\ \A k \in 1..Len(inv[p].ensure) : inv[p].ensure[k].st = "done"
  /\ Finish(p, ErrorResponse)
  /\ UNCHANGED <<now, configs, tasks, nudges, hist, mailed, lastAck, uiView, reportVars>>

\* the tasks read of a loop iteration fails: myTasks is null, the snapshot
\* is that of no task, and the iteration goes on as LoopSend
LoopSendTasksFail(p, ok) ==
  /\ inv[p].pc = "tasks"
  /\ LET nudge == Cur(p)
         email == profiles[nudge.user_id].email
     IN /\ inv' = [inv EXCEPT ![p].pc = "update",
                              ![p].upd = UpdateFor(email, ok, now, buildSnapshot(<<>>, now))]
        /\ hist' = [hist EXCEPT ![p].failed = @ \cup {nudge.id},
                                ![p].okSends = IF SendsMail(email) /\ ok
                                               THEN @ \cup {nudge.id} ELSE @]
        /\ mailed' = IF SendsMail(email) /\ ok THEN mailed \cup {nudge.id} ELSE mailed
        /\ ~SendsMail(email) => ok
  /\ UNCHANGED <<now, configs, tasks, nudges, resp, lastAck, uiView, reportVars>>

\* sendEmail rejects in a loop iteration: no try surrounds the await, the
\* exception leaves the loop and GET
LoopSendThrows(p) ==
  /\ inv[p].pc = "tasks"
  /\ SendsMail(profiles[Cur(p).user_id].email)
  /\ hist' = [hist EXCEPT ![p].failed = @ \cup {Cur(p).id}]
  /\ Finish(p, ErrorResponse)
  /\ UNCHANGED <<now, configs, tasks, nudges, mailed, lastAck, uiView, reportVars>>

\* the update of a loop iteration fails: the row stays as it is, the result
\* is not read, sentCount is incremented after a send that was ok, and the
\* loop moves on
UpdateFails(p) ==
  /\ inv[p].pc = "update"
  /\ LET sent == inv[p].upd.status = "sent"
         sentCount == IF sent THEN inv[p].sentCount + 1 ELSE inv[p].sentCount
     IN /\ hist' = [hist EXCEPT ![p].processed = @ \cup {Cur(p).id},
                                ![p].failed = @ \cup {Cur(p).id}]
        /\ IF inv[p].i = Len(inv[p].due)
           THEN Finish(p, Counts(p, sentCount))
           ELSE /\ inv' = [inv EXCEPT ![p].pc = "tasks", ![p].i = @ + 1,
                                      ![p].upd = NoUpd, ![p].sentCount = sentCount]
                /\ UNCHANGED resp
  /\ UNCHANGED <<now, configs, tasks, nudges, mailed, lastAck, uiView, reportVars>>

\* the request of report invocation p arrives with the secret and the
\* managers read fails: if (mErr) return 500
RepStartManagersFail(p) ==
  /\ rinv[p].pc = "idle"
  /\ \A q \in Procs : q < p => rinv[q].pc # "idle"
  /\ RepFinish(p, RepErrorResponse)
  /\ rhist' = [rhist EXCEPT ![p] = [NoRepHist EXCEPT !.today = todayUtcDateStr(now)]]
  /\ UNCHANGED <<now, tasks, org, reports, dispatchVars>>

\* the team read fails: team is null, and the manager is handled as one
\* without team
RepTeamFails(p) ==
  /\ rinv[p].pc = "team"
  /\ rinv' = [rinv EXCEPT ![p].pc = "send"]
  /\ UNCHANGED <<now, tasks, org, reports, rresp, rhist, dispatchVars>>

\* the insert or update of the report fails: the result is not read
RepWriteFails(p) ==
  /\ rinv[p].pc = "write"
  /\ rinv' = [rinv EXCEPT ![p].pc = "send"]
  /\ UNCHANGED <<now, tasks, org, reports, rresp, rhist, dispatchVars>>

\* sendEmail rejects for a manager's report: the exception leaves GET
RepSendThrows(p) ==
  /\ rinv[p].pc = "send"
  /\ RepSendsMail(profiles[RepCur(p)].email)
  /\ rhist' = [rhist EXCEPT ![p].attempts = @ \cup {RepCur(p)}]
  /\ RepFinish(p, RepErrorResponse)
  /\ UNCHANGED <<now, tasks, org, reports, dispatchVars>>

\* ----------------------------------------------------- the specifications
AckIds == {NULL} \cup {Some(id) : id \in 0..Len(nudges)}

\* the steps of the invocations under way
Dispatch ==
  \/ \E p \in Procs, k \in 1..MaxNudges : EnsureSelect(p, k)
  \/ \E p \in Procs, k \in 1..MaxNudges : EnsureInsert(p, k)
  \/ \E p \in Procs : DueQuery(p)
  \/ \E p \in Procs, ok \in BOOLEAN : LoopSend(p, ok)
  \/ \E p \in Procs : Update(p)

\* Spec: the dispatch trigger, its invocations overlapping freely
Next ==
  \/ Tick
  \/ \E p \in Procs, h \in Headers : Start(p, h)
  \/ Dispatch

Spec == Init /\ [][Next]_vars

\* SpecAck: the trigger invoked one run after the other, with the
\* acknowledgement endpoint and the nudge-history page at any moment
NextAck ==
  \/ Tick
  \/ \E p \in Procs, h \in Headers : (\A q \in Procs : ~Active(q)) /\ Start(p, h)
  \/ Dispatch
  \/ \E id \in Ids : \E token \in LinkTokens(id) : Ack(Some(id), token)
  \/ \E u \in UserSet : LoadPage(u)
  \/ \E id \in Ids : acknowledge(id)

SpecAck == Init /\ [][NextAck]_vars

\* SpecTokens: one invocation of the trigger, and acknowledgement requests
\* with any id and any token
NextTokens ==
  \/ Tick
  \/ \E h \in Headers : Start(1, h)
  \/ Dispatch
  \/ \E id \in AckIds : \E token \in AckTokens(IF id = NULL THEN 0 ELSE Val(id)) : Ack(id, token)

SpecTokens == Init /\ [][NextTokens]_vars

\* the steps of the report invocations under way
Report ==
  \/ \E p \in Procs : RepTeam(p)
  \/ \E p \in Procs : RepSelect(p)
  \/ \E p \in Procs : RepWrite(p)
  \/ \E p \in Procs, ok \in BOOLEAN : RepSend(p, ok)

\* SpecReports: the report trigger, its invocations overlapping freely,
\* while the first task changes hands between todo and done
InitReports == \E o \in OrgChoices : InitWith(StartNow, [u \in UserSet |-> NULL], o)

NextReports ==
  \/ Tick
  \/ \E p \in Procs, h \in Headers : RepStart(p, h)
  \/ Report
  \/ \E status \in {"todo", "done"} : SaveTask(1, status)

SpecReports == InitReports /\ [][NextReports]_vars

\* SpecTriggers: both triggers, each invoked one run after the other, with
\* any header
InitTriggers == \E cs \in ConfigChoices, o \in OrgChoices : InitWith(StartNow, cs, o)

NextTriggers ==
  \/ Tick
  \/ \E p \in Procs, h \in Headers : (\A q \in Procs : ~Active(q)) /\ Start(p, h)
  \/ Dispatch
  \/ \E p \in Procs, h \in Headers : (\A q \in Procs : ~RepActive(q)) /\ RepStart(p, h)
  \/ Report

SpecTriggers == InitTriggers /\ [][NextTriggers]_vars

\* SpecFaults: one invocation of each trigger, carrying the secret, with
\* collaborators that may fail at any call
Faults ==
  \/ StartProfilesFail(1)
  \/ DueQueryFails(1)
  \/ \E ok \in BOOLEAN : LoopSendTasksFail(1, ok)
  \/ LoopSendThrows(1)
  \/ UpdateFails(1)
  \/ RepStartManagersFail(1)
  \/ RepTeamFails(1)
  \/ RepWriteFails(1)
  \/ RepSendThrows(1)

NextFaults ==
  \/ Tick
  \/ Start(1, CRON_SECRET)
  \/ Dispatch
  \/ RepStart(1, CRON_SECRET)
  \/ Report
  \/ Faults

SpecFaults == InitTriggers /\ [][NextFaults]_vars

\* SpecSchedule: the trigger called one run after the other at one instant,
\* from any of the start instants and schedule configurations
InitSchedule == \E t \in StartInstants, cs \in ScheduleConfigs : InitWith(t, cs, DefaultOrg)

NextSchedule ==
  \/ \E h \in Headers : Start(1, h)
  \/ \E h \in Headers : Retrigger(1, h)
  \/ Dispatch

SpecSchedule == InitSchedule /\ [][NextSchedule]_vars

\* SpecClassify: one invocation of each trigger, with one task of u1 of any
\* due date and status; u1 has a nudge slot in the morning and is the team of
\* manager u2
ClassifyConfigs == [u \in UserSet |-> IF u = "u1" THEN Some(Conf(<<"UTC">>, <<<<"0", "0", ":", "0", "0">>>>, TRUE))
                                                  ELSE Some(Conf(<<"UTC">>, <<>>, FALSE))]
ClassifyOrg == [u \in UserSet |-> IF u = "u2" THEN Member("manager", NULL)
                                              ELSE Member("user", Some("u2"))]

InitClassify ==
  \E t \in ClassifyInstants, ts \in TaskChoices : InitAll(t, ClassifyConfigs, ClassifyOrg, ts)

NextClassify ==
  \/ Start(1, CRON_SECRET)
  \/ Dispatch
  \/ RepStart(1, CRON_SECRET)
  \/ Report

SpecClassify == InitClassify /\ [][NextClassify]_vars

\* SpecSlots: the trigger called one run after the other at one instant,
\* with any slot string and any zone string in u1's row
InitSlots == \E t \in StartInstants, cs \in SlotConfigs : InitWith(t, cs, DefaultOrg)

NextSlots ==
  \/ Start(1, CRON_SECRET)
  \/ Retrigger(1, CRON_SECRET)
  \/ Dispatch

SpecSlots == InitSlots /\ [][NextSlots]_vars

\* SpecHang: invocations carrying the secret, one run after the other; every
\* storage call returns, and so does the loop iteration of a profile
\* without email, which calls no transport; the mail transport need not
\* answer a send (the handler sets no timer and races the await with
\* nothing)
NextHang ==
  \/ Tick
  \/ \E p \in Procs : (\A q \in Procs : ~Active(q)) /\ Start(p, CRON_SECRET)
  \/ Dispatch

StorageAnswers ==
  \/ \E p \in Procs, k \in 1..MaxNudges : EnsureSelect(p, k)
  \/ \E p \in Procs, k \in 1..MaxNudges : EnsureInsert(p, k)
  \/ \E p \in Procs : DueQuery(p)
  \/ \E p \in Procs : Update(p)
  \/ \E p \in Procs : LoopSend(p, TRUE) /\ ~SendsMail(profiles[Cur(p).user_id].email)

FairnessHang == WF_vars(StorageAnswers)

SpecHang == Init /\ [][NextHang]_vars /\ FairnessHang

\* SpecDays: the trigger called one run after the other while the clock
\* advances over the day daylight saving ends and into the next; u1 has one
\* slot, 09:00 or 01:30, in UTC or in New York
DaysConfigs ==
  { [u \in UserSet |-> IF u = "u1" THEN Some(Conf(tz, <<slot>>, TRUE))
                                   ELSE Some(Conf(<<"UTC">>, <<>>, FALSE))] :
      tz \in {<<"UTC">>, NewYork}, slot \in {Slot0900, Slot0130} }
DaysStart == {StartNow, MinPerDay + 5 * MinPerHour}
DaysEnd == 2 * MinPerDay + 9 * MinPerHour

InitDays == \E t \in DaysStart, cs \in DaysConfigs : InitWith(t, cs, DefaultOrg)

\* the clock advances
Advance ==
  /\ now + TickStep <= DaysEnd
  /\ now' = now + TickStep
  /\ UNCHANGED <<configs, tasks, nudges, inv, resp, hist, mailed, lastAck, uiView, reportVars>>

NextDays ==
  \/ Advance
  \/ Start(1, CRON_SECRET)
  \/ Retrigger(1, CRON_SECRET)
  \/ Dispatch

SpecDays == InitDays /\ [][NextDays]_vars

\* SpecLive: the scheduler keeps calling the trigger, one call after the
\* other; every call that is under way goes on, the scheduler's calls carry
\* the secret, and the mail transport does not answer not-ok for ever to the
\* sends of any one nudge
NextLive ==
  \/ Tick
  \/ \E h \in Headers : Start(1, h)
  \/ \E h \in Headers : Retrigger(1, h)
  \/ Dispatch

Scheduled == \E h \in Headers : isAuthorizedCron(h) /\ (Start(1, h) \/ Retrigger(1, h))

Fairness ==
  /\ WF_vars(Scheduled)
  /\ WF_vars(Dispatch)
  /\ \A id \in Ids : SF_vars(LoopSend(1, TRUE) /\ Cur(1).id = id)

SpecLive == Init /\ [][NextLive]_vars /\ Fairness

\* ------------------------------------------------------------ the claims
Rows == 1..Len(nudges)
Email(id) == profiles[nudges[id].user_id].email
Responded(p) == resp[p] # NULL /\ Val(resp[p]).status = 200
AttemptedIds(p) == {a.id : a \in hist[p].attempts}

\* the instants the configured slots of u resolve to on the current day
SlotInstants(u) ==
  {Val(UserEnsure(u, now)[k].sched) :
     k \in {j \in 1..Len(UserEnsure(u, now)) : UserEnsure(u, now)[j].sched # NULL}}

\* C1: the nudges table holds at most one row for any (user, scheduled_at)
\* pair, whatever the invocations of the trigger that overlapped.
C1_OneRowPerSlot ==
  \A i \in Rows, j \in Rows :
    (nudges[i].user_id = nudges[j].user_id /\ nudges[i].scheduled_at = nudges[j].scheduled_at)
      => i = j

\* C2: after two invocations that ran one after the other on the same day,
\* every user has exactly as many rows for the day as distinct configured
\* slots, and the second invocation inserted none.
C2_TwoRunsOneRowPerSlot ==
  (/\ Responded(1) /\ Responded(2)
   /\ ~hist[1].overlap /\ ~hist[2].overlap
   /\ now < MinPerDay)
    => /\ \A u \in UserSet :
            Cardinality({id \in Rows : /\ nudges[id].user_id = u
                                       /\ nudges[id].scheduled_at \in SlotInstants(u)})
              = Cardinality(SlotInstants(u))
       /\ hist[2].created = 0

\* C3 as stated: no sendEmail call is for a nudge scheduled after the
\* invocation's now, nor for a nudge whose stored sent_at is set.
C3_NeverFutureNeverResent ==
  \A p \in Procs : \A a \in hist[p].attempts :
    a.scheduled_at <= a.nowISO /\ a.stored_sent_at = NULL

\* C3 as amended: no sendEmail call is for a nudge scheduled after the
\* invocation's now, nor for one whose sent_at was set when the invocation
\* ran its due query; and an invocation that no other invocation overlaps
\* makes no call for a nudge whose stored sent_at is set.
C3_NeverFutureNeverSelectedSent ==
  \A p \in Procs : \A a \in hist[p].attempts :
    /\ a.scheduled_at <= a.nowISO
    /\ a.selected_sent_at = NULL
    /\ ~hist[p].overlap => a.stored_sent_at = NULL

\* a second, non-overlapping invocation has made calls, none of them for a
\* nudge the first invocation had recorded as sent
C3_Witness ==
  /\ inv[2].pc = "done" /\ ~hist[2].overlap
  /\ hist[2].attempts # {}
  /\ \E id \in hist[1].updated : id \notin AttemptedIds(2)

C5_FailureRecorded ==
  /\ [](\A p \in Procs : \A id \in AttemptedIds(p) : Email(id) # "")
  /\ [][\A p \in Procs :
          (Update(p) /\ Cur(p).id \notin hist[p].okSends)
            => /\ nudges'[Cur(p).id] = [nudges[Cur(p).id] EXCEPT !.status = "failed"]
               /\ Cur(p).sent_at = NULL
               /\ ~hist[p].overlap => nudges'[Cur(p).id].sent_at = NULL]_vars

\* an invocation has marked failed a nudge whose send resolved not ok and a
\* nudge of an owner without email
C5_Witness ==
  \E p \in Procs :
    /\ inv[p].pc = "done"
    /\ \E id \in AttemptedIds(p) \ hist[p].okSends :
         nudges[id].status = "failed" /\ nudges[id].sent_at = NULL
    /\ \E id \in hist[p].selected \ AttemptedIds(p) :
         Email(id) = "" /\ nudges[id].status = "failed" /\ nudges[id].sent_at = NULL

\* C6: a nudge in status "failed" with sent_at null is among the nudges the
\* next due query returns; the invocation processes every nudge it selected,
\* calling sendEmail for it again when its owner has an email; and a send
\* that then resolves ok moves the nudge from "failed" to "sent".
C6_FailedIsRetried ==
  /\ [][\A p \in Procs :
          DueQuery(p) => \A id \in Rows :
                           (nudges[id].status = "failed" /\ nudges[id].sent_at = NULL)
                             => id \in hist'[p].selected]_vars
  /\ [](\A p \in Procs :
          Responded(p) => \A id \in hist[p].selected :
                            Email(id) # "" => id \in AttemptedIds(p))
  /\ [][\A p \in Procs :
          (Update(p) /\ Cur(p).id \in hist[p].okSends /\ nudges[Cur(p).id].status = "failed")
            => nudges'[Cur(p).id].status = "sent"]_vars

\* the second invocation is about to record as sent a nudge that the first
\* invocation tried to send and left failed
C6_Witness ==
  /\ inv[2].pc = "update" /\ inv[2].upd.status = "sent"
  /\ ~hist[2].overlap
  /\ nudges[Cur(2).id].status = "failed"
  /\ Cur(2).id \in AttemptedIds(1) \ hist[1].okSends

\* C7: under SpecLive, every nudge whose scheduled_at has passed and whose
\* owner has an email eventually has sent_at set.
C7_AtLeastOnce ==
  \A id \in Ids :
    (id \in Rows /\ Email(id) # "" /\ nudges[id].scheduled_at <= now)
      ~> (id \in Rows /\ nudges[id].sent_at # NULL)

\* a later call of the trigger is about to record as sent a nudge that an
\* earlier call left failed, another nudge being sent already
C7_Witness ==
  /\ inv[1].pc = "update" /\ inv[1].upd.status = "sent"
  /\ nudges[Cur(1).id].status = "failed" /\ nudges[Cur(1).id].sent_at = NULL
  /\ \E id \in Rows : nudges[id].sent_at # NULL

\* C8 as stated: every change of a nudge's status is scheduled->sent,
\* scheduled->failed or sent->acknowledged.
C8_OnlyListedTransitions ==
  [][\A id \in Rows :
       nudges'[id].status # nudges[id].status
         => <<nudges[id].status, nudges'[id].status>> \in
              {<<"scheduled", "sent">>, <<"scheduled", "failed">>, <<"sent", "acknowledged">>}]_vars

\* C9: a request with the valid token of a nudge, the first or a later one,
\* leaves the nudge in status "acknowledged" and is answered with the 200
\* confirmation; a request for a nudge already acknowledged changes nothing
\* of it but the acknowledged_at instant.
C9_AckTwiceAcknowledged ==
  [][\A id \in Rows :
       Ack(Some(id), Hmac(id))
         => /\ nudges'[id].status = "acknowledged"
            /\ lastAck'.status = 200
            /\ nudges[id].status = "acknowledged"
                 => nudges'[id] = [nudges[id] EXCEPT !.acknowledged_at = Some(now)]]_vars

\* the last request acknowledged a nudge that was acknowledged before it
C9_Witness ==
  /\ lastAck.status = 200 /\ lastAck.again
  /\ \E id \in Rows : nudges[id].status = "acknowledged" /\ nudges[id].acknowledged_at # NULL

\* C10: a request for an existing nudge whose token differs from the valid
\* one in one bit is not answered with the confirmation (it gets the 400
\* rejection, or 500 when the changed character is no longer one byte) and
\* the nudges table is unchanged. Under SpecTokens the steps that leave the
\* clock and the invocations alone are the requests to the endpoint.
C10_TamperedRejected ==
  [][(now' = now /\ inv' = inv /\ lastAck'.tampered)
       => /\ nudges' = nudges
          /\ lastAck'.status \in {400, 500}
          /\ lastAck'.bytes = TokenLen => lastAck'.status = 400]_vars

\* the last request carried a one-bit change of the valid token of a nudge
\* that had been sent, and got the 400 rejection
C10_Witness ==
  /\ lastAck.tampered /\ lastAck.status = 400
  /\ \E id \in Rows : nudges[id].status = "sent"

\* C11 as stated: a request whose id or token is missing, or whose token is
\* not the keyed MAC of its id, whatever the token's length, is answered with
\* the 400 rejection and leaves the nudges table unchanged, for an id of the
\* table and for an id that is not in it.
C11_InvalidAckFixedRejection ==
  [][\A id \in AckIds : \A token \in AckTokens(IF id = NULL THEN 0 ELSE Val(id)) :
       (Ack(id, token) /\ (id = NULL \/ token = <<>> \/ token # Hmac(Val(id))))
         => /\ nudges' = nudges
            /\ lastAck'.status = 400]_vars

\* C12: with a secret configured, a request to the dispatch trigger or to
\* the report trigger whose header is absent, or is neither the secret nor
\* "Bearer " followed by the secret, is answered with the 401 response and
\* ends there: no nudge, report, task or mail is created, changed or sent.
C12_UnauthorizedNoEffect ==
  [][\A p \in Procs, h \in Headers :
       (CRON_SECRET # <<>> /\ (h = <<>> \/ (h # CRON_SECRET /\ h # Bearer \o CRON_SECRET)))
         => /\ Start(p, h)
                 => /\ resp'[p] = Some(Response(401, "Unauthorized", 0, 0))
                    /\ inv'[p].pc = "done" /\ hist'[p] = NoHist
                    /\ nudges' = nudges /\ reports' = reports /\ mailed' = mailed
            /\ RepStart(p, h)
                 => /\ rresp'[p] = Some(RepResponse(401, "Unauthorized", 0, 0))
                    /\ rinv'[p].pc = "done" /\ rhist'[p] = NoRepHist
                    /\ nudges' = nudges /\ reports' = reports /\ mailed' = mailed]_vars

\* after an authorized run of each trigger has left nudges and reports, a
\* second request to each has been answered 401
C12_Witness ==
  /\ nudges # <<>> /\ reports # <<>>
  /\ resp[2] = Some(Response(401, "Unauthorized", 0, 0))
  /\ rresp[2] = Some(RepResponse(401, "Unauthorized", 0, 0))

RepResponded(p) == rresp[p] # NULL /\ Val(rresp[p]).status = 200
ReportRows == 1..Len(reports)

\* C13: after two invocations of the report trigger that ran one after the
\* other for the same UTC date, every manager with a team has exactly one
\* row for that date; and each write of the second invocation is an update
\* of that row which stores the summary the second invocation computed,
\* status "sent" and the instant of the write, and adds no row; that summary
\* has, for each member of the team, the open and completed-today counts of
\* the tasks as they are when the second invocation reads them.
C13_TwoRunsOneReport ==
  /\ [](( /\ RepResponded(1) /\ RepResponded(2)
          /\ ~rhist[1].overlap /\ ~rhist[2].overlap
          /\ rhist[1].today = rhist[2].today )
          => \A k \in 1..Len(Managers) :
               Team(Managers[k]) # <<>>
                 => Cardinality(MatchingReports(Managers[k], rhist[2].today)) = 1)
  /\ [][( /\ RepWrite(2) /\ RepResponded(1)
          /\ ~rhist[1].overlap /\ ~rhist[2].overlap
          /\ rhist[1].today = rhist[2].today )
          => /\ rinv[2].existing # NULL
             /\ Len(reports') = Len(reports)
             /\ reports' = [reports EXCEPT ![Val(rinv[2].existing)] =
                               [@ EXCEPT !.summary = rinv[2].summary, !.status = "sent",
                                         !.sent_at = Some(now)]]]_vars
  /\ [][(RepTeam(2) /\ Team(RepCur(2)) # <<>>)
          => LET stats == Val(rinv'[2].summary).perUser
                 of(u) == {k \in 1..Len(tasks) : tasks[k].owner_id = u}
             IN \A u \in DOMAIN stats :
                  /\ org[u].manager_id = Some(RepCur(2))
                  /\ stats[u].open = Cardinality({k \in of(u) : tasks[k].status # "done"})
                  /\ stats[u].completedToday =
                       Cardinality({k \in of(u) : /\ tasks[k].status = "done"
                                                  /\ tasks[k].updated_at \div MinPerDay
                                                       = rhist[2].today})]_vars

\* the second of two successive runs of the same date has overwritten the
\* only row: written later in the day, with a task completed in between
C13_Witness ==
  /\ RepResponded(1) /\ RepResponded(2) /\ ~rhist[1].overlap /\ ~rhist[2].overlap
  /\ rhist[1].today = rhist[2].today
  /\ Len(reports) = 1
  /\ reports[1].sent_at = Some(StartNow + TickStep)
  /\ reports[1].summary # NULL
  /\ "u1" \in DOMAIN Val(reports[1].summary).perUser
  /\ Val(reports[1].summary).perUser["u1"].completedToday = 1

\* C14: in every reachable state, overlapping invocations of the report
\* trigger included, there is at most one manager_reports row for a
\* manager and a report date.
C14_OneReportPerManagerDate ==
  \A i, j \in 1..Len(reports) :
    (reports[i].manager_id = reports[j].manager_id
       /\ reports[i].report_date = reports[j].report_date) => i = j

\* C15: the reports_sent an invocation returns is the number of managers
\* whose report email the mail collaborator answered ok in that invocation;
\* a manager whose send was not ok, or who has no email address, is not
\* counted.
C15_ReportsSentCountsOkSends ==
  \A p \in Procs :
    (RepResponded(p) /\ Val(rresp[p]).status = 200)
      => Val(rresp[p]).reports_sent = Cardinality(rhist[p].okSends)

\* C16: a dispatch invocation in which the processing of a due nudge failed
\* (sendEmail threw, or a storage call for that nudge failed) has, when it
\* returns, processed every other due nudge it selected.
C16_FailureDoesNotStopOthers ==
  \A p \in Procs :
    (resp[p] # NULL /\ hist[p].failed # {})
      => (hist[p].selected \ hist[p].failed) \subseteq hist[p].processed

\* C17: an invocation of the dispatch or of the report trigger that carries
\* the secret returns its counts (status 200), also when a storage read or
\* write failed during the run; it never returns an error response.
C17_AuthorizedReturnsCounts ==
  /\ \A p \in Procs : resp[p] # NULL => Val(resp[p]).status = 200
  /\ \A p \in Procs : rresp[p] # NULL => Val(rresp[p]).status = 200

Disabled(u) == configs[u] # NULL /\ Val(configs[u]).enabled = FALSE
NudgesOf(u) == {id \in 1..Len(nudges) : nudges[id].user_id = u}

\* C18: no nudge is ever created for a user whose nudge_configs row has
\* enabled = false, whatever the row's slots and time zone.
C18_DisabledCreatesNothing ==
  /\ \A u \in UserSet : Disabled(u) => NudgesOf(u) = {}
  /\ \A p \in Procs : \A k \in 1..Len(inv[p].ensure) : ~Disabled(inv[p].ensure[k].user)

\* an invocation has returned its counts and created the other user's
\* nudges, while the disabled user has slots that resolve, in New York
C18_Witness ==
  /\ Responded(1)
  /\ Disabled("u2")
  /\ Val(configs["u2"]).timezone = NewYork
  /\ Len(Val(configs["u2"]).times) = 3
  /\ hist[1].created = 3

\* C19: once an invocation has returned its counts, a user without
\* nudge_configs row has exactly three nudges scheduled on the current UTC
\* day, at 09:00, 13:00 and 17:00 UTC of that day, however often the
\* trigger ran that day.
C19_DefaultSchedule ==
  \A u \in UserSet :
    (configs[u] = NULL /\ Responded(1))
      => LET day == now \div MinPerDay
             rows == {id \in NudgesOf(u) : nudges[id].scheduled_at \div MinPerDay = day}
         IN /\ Cardinality(rows) = 3
            /\ {nudges[id].scheduled_at : id \in rows}
                 = {day * MinPerDay + h * MinPerHour : h \in {9, 13, 17}}

\* the second run of the day has returned, having found the three rows
C19_Witness ==
  /\ configs["u1"] = NULL
  /\ Responded(1)
  /\ hist[1].created = 0
  /\ Cardinality(NudgesOf("u1")) = 3
  /\ now = MinPerDay + 17 * MinPerHour

\* C20: when an invocation resolves the slots, slot "09:00" of a row in
\* zone "UTC" resolves to 09:00 UTC of the current UTC day, and slot "09:00"
\* of a row in zone "America/New_York" resolves, on the current New York
\* day, to 13:00 UTC when daylight saving is in force at that slot and to
\* 14:00 UTC when it is not.
C20_ResolveNineOClock ==
  [][\A k \in 1..Len(inv'[1].ensure) :
       (inv[1].pc # "ensure" /\ inv'[1].pc = "ensure" /\ configs[inv'[1].ensure[k].user] # NULL)
         => LET e == inv'[1].ensure[k]
                conf == Val(configs[e.user])
                nyOffset == IF now < DstEnd THEN 4 * MinPerHour ELSE 5 * MinPerHour
                nyDay == (now - nyOffset) \div MinPerDay
                dst == nyDay * MinPerDay + 13 * MinPerHour < DstEnd
            IN /\ (conf.times = <<Slot0900>> /\ conf.timezone = <<"UTC">>)
                    => e.sched = Some((now \div MinPerDay) * MinPerDay + 9 * MinPerHour)
               /\ (conf.times = <<Slot0900>> /\ conf.timezone = NewYork)
                    => e.sched = Some(nyDay * MinPerDay
                                       + (IF dst THEN 13 ELSE 14) * MinPerHour)]_vars

\* one hour before daylight saving ends, the New York slot of the day has
\* been created at 14:00 UTC
C20_Witness ==
  /\ now = MinPerDay + 5 * MinPerHour
  /\ configs["u1"] = Some(Conf(NewYork, <<Slot0900>>, TRUE))
  /\ \E id \in NudgesOf("u1") : nudges[id].scheduled_at = MinPerDay + 14 * MinPerHour

\* the classification the claim gives for a task at the current instant
ClaimedOverdue(task) == task.status # "done" /\ task.due_date < now \div MinPerDay
ClaimedDueSoon(task) ==
  /\ task.status # "done"
  /\ task.due_date \in {now \div MinPerDay, now \div MinPerDay + 1}
Count(b) == IF b THEN 1 ELSE 0

\* C21: the payload of a sent nudge and the summary of a report count the
\* owner's task as overdue exactly when it is not done and due before
\* today's UTC date, and as due-soon exactly when it is not done and due
\* today or tomorrow.
C21_Classification ==
  /\ \A id \in 1..Len(nudges) :
       nudges[id].payload # NULL
         => LET counts == Val(nudges[id].payload).counts
            IN /\ counts.overdue = Count(ClaimedOverdue(tasks[1]))
               /\ counts.dueSoon = Count(ClaimedDueSoon(tasks[1]))
  /\ \A r \in 1..Len(reports) :
       reports[r].summary # NULL
         => LET stats == Val(reports[r].summary).perUser["u1"]
            IN /\ stats.overdue = Count(ClaimedOverdue(tasks[1]))
               /\ stats.dueSoon = Count(ClaimedDueSoon(tasks[1]))

\* C22: when the due query of an invocation runs, every ensure promise of
\* the invocation has completed its select and insert, and the query
\* selects every unsent row scheduled not later than now, the rows the
\* invocation created among them; the invocation that returns its counts
\* has processed every row it selected.
C22_EnsureBeforeDueQuery ==
  /\ [](\A p \in Procs : Responded(p) => hist[p].selected \subseteq hist[p].processed)
  /\ [][\A p \in Procs :
          (inv[p].pc = "ensure" /\ inv'[p].pc \in {"tasks", "done"})
            => /\ \A k \in 1..Len(inv[p].ensure) : inv[p].ensure[k].st = "done"
               /\ \A id \in 1..Len(nudges) :
                    (nudges[id].scheduled_at <= now /\ nudges[id].sent_at = NULL)
                      => IF inv'[p].pc = "tasks" THEN id \in hist'[p].selected ELSE FALSE]_vars

\* the only invocation so far has created rows, found them due and
\* processed them
C22_Witness ==
  /\ Responded(1)
  /\ inv[2].pc = "idle"
  /\ hist[1].created = Len(nudges)
  /\ hist[1].created > 1
  /\ hist[1].selected = 1..Len(nudges)
  /\ hist[1].processed = hist[1].selected

\* the zone the ensure loop resolves u's slots in, and the instants u's
\* slots resolve to at the current instant
ZoneOf(u) == IF trim(Val(configs[u]).timezone) = <<>> THEN <<"UTC">>
             ELSE trim(Val(configs[u]).timezone)
Resolved(u) ==
  LET times == Val(configs[u]).times
  IN {Val(parseTimeToUTCISO(times[k], ZoneOf(u), now)) :
        k \in {j \in 1..Len(times) : parseTimeToUTCISO(times[j], ZoneOf(u), now) # NULL}}
ScheduledAt(u) == {nudges[id].scheduled_at : id \in NudgesOf(u)}

\* C23: once an invocation has returned its counts, a slot of a user that
\* does not resolve (invalid slot string, or unresolvable zone) has no
\* nudge, and every slot that does resolve, of that user and of the other
\* enabled user, has its nudge.
C23_InvalidSlotSkipped ==
  Responded(1) =>
    \A u \in UserSet :
      /\ ScheduledAt(u) = Resolved(u)
      /\ Cardinality(NudgesOf(u)) = Cardinality(Resolved(u))

\* u1 has an invalid slot before a valid one: the valid one and the other
\* user's slot are materialised
C23_Witness ==
  /\ Responded(1)
  /\ Val(configs["u1"]).times = <<<<"2", "4", ":", "0", "0">>, Slot0900>>
  /\ Val(configs["u1"]).timezone = <<"UTC">>
  /\ Cardinality(NudgesOf("u1")) = 1
  /\ Cardinality(NudgesOf("u2")) = 1

\* a two-digit hour 00-23, a colon, a two-digit minute 00-59
TwoDigitSlot(slot) ==
  /\ Len(slot) = 5
  /\ IsDigit(slot[1]) /\ IsDigit(slot[2]) /\ slot[3] = ":" /\ IsDigit(slot[4]) /\ IsDigit(slot[5])
  /\ 10 * DigitVal(slot[1]) + DigitVal(slot[2]) <= 23
  /\ 10 * DigitVal(slot[4]) + DigitVal(slot[5]) <= 59

\* C25: once an invocation has returned its counts, a user with a
\* resolvable zone has a nudge for a slot of the row exactly when the slot
\* is a two-digit hour 00-23, a colon and a two-digit minute 00-59; so a
\* row whose slots are all of another form has no nudge.
C25_SlotFormat ==
  Responded(1) =>
    \A u \in UserSet :
      ZoneIsValid(ZoneOf(u))
        => LET times == Val(configs[u]).times
           IN (NudgesOf(u) # {}) = (\E k \in 1..Len(times) : TwoDigitSlot(times[k]))

\* the zone strings the claim resolves in UTC: the empty one (an absent
\* row is the subject of the defaults)
EmptyZone(tz) == tz = <<>>

\* C26: once an invocation has returned its counts, the nudges of a user
\* whose zone string is empty are those of the slots resolved in UTC, and a
\* user whose zone string is not empty and does not resolve has no nudge.
C26_ZoneFallback ==
  Responded(1) =>
    \A u \in UserSet :
      LET tz == Val(configs[u]).timezone
          times == Val(configs[u]).times
      IN /\ EmptyZone(tz)
              => ScheduledAt(u) =
                   {Val(parseTimeToUTCISO(times[k], <<"UTC">>, now)) :
                      k \in {j \in 1..Len(times) :
                               parseTimeToUTCISO(times[j], <<"UTC">>, now) # NULL}}
         /\ (~EmptyZone(tz) /\ ~ZoneIsValid(tz) /\ ~ZoneIsValid(trim(tz)))
              => NudgesOf(u) = {}

\* C24: an invocation that is under way returns a response, also when the
\* mail transport never answers a send.
C24_TerminatesDespiteHungSend == \A p \in Procs : Active(p) ~> resp[p] # NULL

\* the calendar day of instant ts in a zone
LocalDay(zone, ts) == (ts + ZoneOffset(zone, ts)) \div MinPerDay

\* C27: a user with one slot has at most one nudge per calendar day of the
\* user's zone: the invocations of one day in the zone resolve the slot to
\* one instant, and none of them adds a second nudge for the day.
C27_OneInstantPerLocalDay ==
  \A u \in UserSet :
    (configs[u] # NULL /\ Len(Val(configs[u]).times) = 1)
      => \A i, j \in NudgesOf(u) :
           LocalDay(ZoneOf(u), nudges[i].scheduled_at)
             = LocalDay(ZoneOf(u), nudges[j].scheduled_at) => i = j

\* C28: no step changes the status of a nudge that is acknowledged
\* (acknowledged_at set, status acknowledged) to another status, and no
\* dispatch invocation calls sendEmail for it.
C28_AcknowledgedIsFinal ==
  [][\A id \in 1..Len(nudges) :
       (nudges[id].acknowledged_at # NULL /\ nudges[id].status = "acknowledged")
         => /\ nudges'[id].status = "acknowledged"
            /\ \A p \in Procs :
                 \A a \in hist'[p].attempts \ hist[p].attempts : a.id # id]_vars

\* C29: in every reachable state, a nudge with status sent has sent_at and
\* payload set, a nudge with status scheduled or failed has no sent_at, and
\* a nudge with status acknowledged has acknowledged_at set.
C29_StatusFieldInvariant ==
  \A id \in 1..Len(nudges) :
    /\ nudges[id].status = "sent" => (nudges[id].sent_at # NULL /\ nudges[id].payload # NULL)
    /\ nudges[id].status \in {"scheduled", "failed"} => nudges[id].sent_at = NULL
    /\ nudges[id].status = "acknowledged" => nudges[id].acknowledged_at # NULL

\* C30: in every reachable state, a manager_reports row that says sent
\* (status sent, sent_at set) belongs to a manager whose report email of
\* that date was answered ok by the mail transport.
C30_SentOnlyAfterOkSend ==
  \A r \in ReportRows :
    (reports[r].status = "sent" \/ reports[r].sent_at # NULL)
      => \E p \in Procs : /\ reports[r].manager_id \in rhist[p].okSends
                          /\ rhist[p].today = reports[r].report_date

====
